---- MODULE Spec2Model ----
(***************************************************************************)
(* DCT steganography codec of src/dct_steganography.py: the embedder and   *)
(* the extractor of class DCTSteganography, one 8x8 block per step.        *)
(*                                                                         *)
(* Numbers.  Pixels are integers 0..255.  The float working copy of embed  *)
(* (stego_image, np.float32) is kept in fixed point, FRAC units per grey   *)
(* level.  The orthonormal DCT-II basis of coefficient (4,5) is the outer  *)
(* product of the two cosine vectors K4 and K5, each kept at BSCALE units  *)
(* per 1.0, so a coefficient is kept at BSCALE*BSCALE units per 1.0, and   *)
(* so is the strength alpha.                                               *)
(***************************************************************************)
EXTENDS Integers, Sequences, FiniteSets, TLC

block_size == 8

\* ---- bounds of the model -------------------------------------------------
MaxMsgLen == 2
MaxLength == 17
MaxBits == 16

\* ---- fixed point ---------------------------------------------------------
BSCALE == 100
FRAC == 1000
CSCALE == BSCALE * BSCALE

\* 0.5*cos((2n+1)*4*pi/16) and 0.5*cos((2n+1)*5*pi/16), n = 0..7, times BSCALE
K4 == <<35, -35, -35, 35, 35, -35, -35, 35>>
K5 == <<28, -49, 10, 42, -42, -10, 49, -28>>

Basis(i, j) == K4[i + 1] * K5[j + 1]

Abs(v) == IF v < 0 THEN -v ELSE v
Sign(v) == IF v > 0 THEN 1 ELSE IF v < 0 THEN -1 ELSE 0

\* ---- images ----------------------------------------------------------------
\* an image is what cv2.imread returns: shape (h, w) and the samples px[r][c]
NoImage == [h |-> 0, w |-> 0, px |-> <<>>, none |-> TRUE]

\* image[:new_h, :new_w]
Slice(img, new_h, new_w) ==
    [h |-> new_h, w |-> new_w,
     px |-> [r \in 0..(new_h - 1) |-> [c \in 0..(new_w - 1) |-> img.px[r][c]]],
     none |-> FALSE]

\* ---- the cover images the model runs on --------------------------------------
\* "black": every sample 0.  "neg": every block carries a clearly negative
\* coefficient (4,5).  "tex": block k carries a clearly positive coefficient
\* where bit k mod 8 of TexBits is 1 and a clearly negative one elsewhere, so
\* the untouched image already reads as the character 'A' over and over.
TexBits == <<0, 1, 0, 0, 0, 0, 0, 1>>
TexAmp == 4

Dims == {<<8, 64>>, <<20, 20>>, <<16, 64>>, <<27, 70>>, <<8, 56>>}
Kinds == {"black", "neg", "tex"}

CoverPixel(kind, ww, r, c) ==
    IF kind = "black" THEN 0
    ELSE LET k == (r \div block_size) * (ww \div block_size) + (c \div block_size)
             s == IF kind = "tex" /\ TexBits[(k % 8) + 1] = 1 THEN 1 ELSE -1
         IN  128 + s * TexAmp * Sign(Basis(r % block_size, c % block_size))

CoverImage(d, kind) ==
    [h |-> d[1], w |-> d[2],
     px |-> [r \in 0..(d[1] - 1) |-> [c \in 0..(d[2] - 1) |-> CoverPixel(kind, d[2], r, c)]],
     none |-> FALSE]

Covers == {CoverImage(d, kind) : d \in Dims, kind \in Kinds}

\* ---- inputs --------------------------------------------------------------------
Chars == {66, 256}
Messages == UNION {[1..n -> Chars] : n \in 0..MaxMsgLen}
Alphas == {1000, 100000}
DefaultAlpha == 1000
None == [given |-> FALSE, n |-> 0]
Lengths == {None} \cup {[given |-> TRUE, n |-> n] : n \in 0..MaxLength}

\* Python truth value of message_length (None and 0 are false)
Truthy(ml) == ml.given /\ ml.n # 0

\* ---- block transform -------------------------------------------------------------
\* coefficient [4, 5] of dct(dct(block, axis=0, norm='ortho'), axis=1, norm='ortho')
RowDot(row, x) ==
      K5[1] * row[x]     + K5[2] * row[x + 1] + K5[3] * row[x + 2] + K5[4] * row[x + 3]
    + K5[5] * row[x + 4] + K5[6] * row[x + 5] + K5[7] * row[x + 6] + K5[8] * row[x + 7]

Dct45(px, y, x) ==
      K4[1] * RowDot(px[y], x)     + K4[2] * RowDot(px[y + 1], x)
    + K4[3] * RowDot(px[y + 2], x) + K4[4] * RowDot(px[y + 3], x)
    + K4[5] * RowDot(px[y + 4], x) + K4[6] * RowDot(px[y + 5], x)
    + K4[7] * RowDot(px[y + 6], x) + K4[8] * RowDot(px[y + 7], x)

\* bit = 1 if dct_block[4, 5] > 0 else 0
SignBit(coef) == IF coef > 0 THEN 1 ELSE 0

\* the sign rule without abs(): the coefficient is pushed, not set
Encode_NoAbs(coef, bit, alpha) ==
    IF bit = 1 THEN coef + alpha ELSE coef - alpha

\* the coefficient embed writes for a bit
Encode(coef, bit, alpha) ==
    IF bit = 1 THEN Abs(coef) + alpha ELSE -Abs(coef) - alpha

\* one sample of idct(idct(dct_block)) after dct_block[4, 5] went from coef to
\* value: the block's sample plus (value - coef) times the basis, in FRAC units
Idct45(p, i, j, coef, value) ==
    p * FRAC + ((value - coef) * Basis(i, j)) \div ((CSCALE * CSCALE) \div FRAC)

\* np.clip(v, 0, 255).astype(np.uint8) of one working-copy sample
ClipU8(v) ==
    LET c == IF v < 0 THEN 0 ELSE IF v > 255 * FRAC THEN 255 * FRAC ELSE v
    IN  c \div FRAC

\* ---- payload framing ------------------------------------------------------------------
RECURSIVE Bin(_)
Bin(n) == IF n < 2 THEN <<n>> ELSE Bin(n \div 2) \o <<n % 2>>

RECURSIVE Zeros(_)
Zeros(n) == IF n <= 0 THEN <<>> ELSE <<0>> \o Zeros(n - 1)

\* format(ord(char), '08b'): binary digits, zero-padded to a width of at least 8
Format08b(code) == Zeros(8 - Len(Bin(code))) \o Bin(code)

RECURSIVE JoinBits(_)
JoinBits(msg) ==
    IF msg = <<>> THEN <<>> ELSE Format08b(Head(msg)) \o JoinBits(Tail(msg))

Terminator == <<0, 0, 0, 0, 0, 0, 0, 0>>

BinaryMessage(msg) == JoinBits(msg) \o Terminator

\* ---- decode -------------------------------------------------------------------------------
\* [''.join(extracted_bits[i:i+8]) for i in range(0, len(extracted_bits), 8)]
RECURSIVE BinaryChunks(_)
BinaryChunks(bits) ==
    IF bits = <<>> THEN <<>>
    ELSE IF Len(bits) <= 8 THEN <<bits>>
    ELSE <<SubSeq(bits, 1, 8)>> \o BinaryChunks(SubSeq(bits, 9, Len(bits)))

\* int(chunk, 2)
RECURSIVE IntBase2(_)
IntBase2(chunk) ==
    IF chunk = <<>> THEN 0
    ELSE 2 * IntBase2(SubSeq(chunk, 1, Len(chunk) - 1)) + chunk[Len(chunk)]

\* the printable range taken one too far (DEL)
Printable_WithDel(char_code) ==
    (32 <= char_code /\ char_code <= 127) \/ char_code \in {9, 10, 13}

Printable(char_code) ==
    (32 <= char_code /\ char_code <= 126) \/ char_code \in {9, 10, 13}

RECURSIVE DecodeChunks(_)
DecodeChunks(chunks) ==
    IF chunks = <<>> THEN <<>>
    ELSE LET chunk == Head(chunks)
             rest == DecodeChunks(Tail(chunks))
         IN  IF Len(chunk) = 8 /\ Printable(IntBase2(chunk))
             THEN <<IntBase2(chunk)>> \o rest
             ELSE rest

Last8(bits) == SubSeq(bits, Len(bits) - 7, Len(bits))

\* ---- state ----------------------------------------------------------------------------------
VARIABLES
    cover,            \* the cover image file
    output_file,      \* the file embed writes (NoImage until written)
    pc,               \* position of the running call
    message, alpha,   \* embed's arguments
    image,            \* embed: the loaded, truncated image
    binary_message,   \* embed: the payload bit string
    total_blocks,     \* embed: capacity
    stego_image,      \* embed: float working copy (FRAC units), extract: loaded image
    bit_index,        \* embed: next bit to hide
    y, x,             \* loop positions of the running call
    embed_ret,        \* embed's return value: "none", "True", "False"
    max_length,       \* the maximum length embed's capacity error reports (-1: none)
    coef_log,         \* embed: the coefficients written, in order
    source,           \* extract: the image as loaded, before truncation
    message_length,   \* extract's argument
    extracted_bits,   \* extract: bits collected
    blocks_read,      \* extract: raster indices of the blocks transformed, in order
    stripped,         \* extract: how often line 152 dropped a terminator
    extracted_message \* extract's return value

vars == <<cover, output_file, pc, message, alpha, image, binary_message,
          total_blocks, stego_image, bit_index, y, x, embed_ret, max_length,
          coef_log, source, message_length, extracted_bits, blocks_read,
          stripped, extracted_message>>

embedVars == <<message, alpha, image, binary_message, total_blocks, bit_index,
               embed_ret, max_length, coef_log>>
extractVars == <<source, message_length, extracted_bits, blocks_read, stripped,
                 extracted_message>>

Init ==
    /\ cover \in Covers
    /\ output_file = NoImage
    /\ pc = "idle"
    /\ message = <<>>
    /\ alpha = DefaultAlpha
    /\ image = NoImage
    /\ binary_message = <<>>
    /\ total_blocks = 0
    /\ stego_image = NoImage
    /\ bit_index = 0
    /\ y = 0
    /\ x = 0
    /\ embed_ret = "none"
    /\ max_length = -1
    /\ coef_log = <<>>
    /\ source = NoImage
    /\ message_length = None
    /\ extracted_bits = <<>>
    /\ blocks_read = <<>>
    /\ stripped = 0
    /\ extracted_message = <<>>

\* ---- embed ------------------------------------------------------------------------------------
\* the crop taken to a multiple of 16 instead of 8
NewDim_Wide(d) == d - (d % (2 * block_size))

\* new_h = h - (h % self.block_size) if h % self.block_size != 0 else h
NewDim(d) == IF d % block_size # 0 THEN d - (d % block_size) ELSE d

Truncate(img) == Slice(img, NewDim(img.h), NewDim(img.w))

Capacity(img) == (img.h \div block_size) * (img.w \div block_size)

\* the capacity check off by one
TooLong_OffByOne(bits, total) == Len(bits) >= total

TooLong(bits, total) == Len(bits) > total

MaxChars(total) == total \div 8

\* np.copy(image).astype(np.float32)
AsFloat(img) ==
    [img EXCEPT !.px = [r \in 0..(img.h - 1) |->
                          [c \in 0..(img.w - 1) |-> img.px[r][c] * FRAC]]]

\* np.clip(stego_image, 0, 255).astype(np.uint8)
AsU8(img) ==
    [img EXCEPT !.px = [r \in 0..(img.h - 1) |->
                          [c \in 0..(img.w - 1) |-> ClipU8(img.px[r][c])]]]

InBlock(r, c, by, bx) ==
    /\ by <= r /\ r < by + block_size
    /\ bx <= c /\ c < bx + block_size

\* stego_image[y:y+8, x:x+8] = modified_block
PutBlock(work, src, by, bx, coef, value) ==
    [work EXCEPT !.px = [r \in 0..(work.h - 1) |->
        IF r < by \/ r >= by + block_size THEN work.px[r]
        ELSE [c \in 0..(work.w - 1) |->
                 IF InBlock(r, c, by, bx)
                 THEN Idct45(src.px[r][c], r - by, c - bx, coef, value)
                 ELSE work.px[r][c]]]]

\* raster index of the block at pixel position (by, bx)
BlockIndex(img, by, bx) == (by \div block_size) * (img.w \div block_size) + (bx \div block_size)

\* break at line 65: the bit string is exhausted
EmbedExhausted(idx, bits) == idx >= Len(bits)

EmbedStart(msg, a) ==
    /\ pc = "idle"
    /\ message' = msg
    /\ alpha' = a
    /\ image' = Truncate(cover)
    /\ binary_message' = BinaryMessage(msg)
    /\ total_blocks' = Capacity(image')
    /\ bit_index' = 0
    /\ y' = 0
    /\ x' = 0
    /\ coef_log' = <<>>
    /\ IF TooLong(binary_message', total_blocks')
       THEN /\ max_length' = MaxChars(total_blocks')
            /\ embed_ret' = "False"
            /\ pc' = "embed_failed"
            /\ UNCHANGED stego_image
       ELSE /\ stego_image' = AsFloat(image')
            /\ pc' = IF image'.h > 0 THEN "embed_loop" ELSE "embed_clip"
            /\ UNCHANGED <<max_length, embed_ret>>
    /\ UNCHANGED <<cover, output_file>>
    /\ UNCHANGED extractVars

\* where the loops stand after the inner loop at row y ended
EmbedNextRow ==
    /\ y' = y + block_size
    /\ x' = 0
    /\ pc' = IF y + block_size < image.h THEN "embed_loop" ELSE "embed_clip"

\* no break: a block past the end of the bit string is given a 0 bit
EmbedBreak_PadZero ==
    /\ pc = "embed_loop"
    /\ bit_index >= Len(binary_message)
    /\ LET coef == Dct45(image.px, y, x)
       IN  stego_image' = PutBlock(stego_image, image, y, x, coef, Encode(coef, 0, alpha))
    /\ IF x + block_size < image.w
       THEN /\ x' = x + block_size
            /\ UNCHANGED <<y, pc>>
       ELSE EmbedNextRow
    /\ UNCHANGED <<cover, output_file, message, alpha, image, binary_message,
                   total_blocks, bit_index, embed_ret, max_length, coef_log>>
    /\ UNCHANGED extractVars

\* lines 65-66: the inner loop breaks, the outer loop goes to its next row
EmbedBreak ==
    /\ pc = "embed_loop"
    /\ EmbedExhausted(bit_index, binary_message)
    /\ EmbedNextRow
    /\ UNCHANGED <<cover, output_file, message, alpha, image, binary_message,
                   total_blocks, stego_image, bit_index, embed_ret, max_length,
                   coef_log>>
    /\ UNCHANGED extractVars

\* lines 68-88: one block gets one bit
EmbedBlock ==
    /\ pc = "embed_loop"
    /\ ~EmbedExhausted(bit_index, binary_message)
    /\ LET coef == Dct45(image.px, y, x)
           bit == binary_message[bit_index + 1]
           value == Encode(coef, bit, alpha)
       IN  /\ stego_image' = PutBlock(stego_image, image, y, x, coef, value)
           /\ coef_log' = Append(coef_log,
                  [block |-> BlockIndex(image, y, x), bit |-> bit,
                   coef |-> coef, value |-> value])
    /\ bit_index' = bit_index + 1
    /\ IF x + block_size < image.w
       THEN /\ x' = x + block_size
            /\ UNCHANGED <<y, pc>>
       ELSE EmbedNextRow
    /\ UNCHANGED <<cover, output_file, message, alpha, image, binary_message,
                   total_blocks, embed_ret, max_length>>
    /\ UNCHANGED extractVars

\* lines 90-97
EmbedFinish ==
    /\ pc = "embed_clip"
    /\ output_file' = AsU8(stego_image)
    /\ embed_ret' = "True"
    /\ pc' = "embed_done"
    /\ UNCHANGED <<cover, message, alpha, image, binary_message, total_blocks,
                   stego_image, bit_index, y, x, max_length, coef_log>>
    /\ UNCHANGED extractVars

\* ---- extract ----------------------------------------------------------------------------------
\* lines 122-128
ExtractTruncate(img) ==
    IF img.h % block_size # 0 \/ img.w % block_size # 0
    THEN Slice(img, img.h - (img.h % block_size), img.w - (img.w % block_size))
    ELSE img

\* the length check off by one
LengthReached_Late(ml, bits) == Truthy(ml) /\ Len(bits) > ml.n

\* line 134, and the first half of line 155
LengthReached(ml, bits) == Truthy(ml) /\ Len(bits) >= ml.n

\* lines 148-151
TerminatorSeen(ml, bits) ==
    /\ ~Truthy(ml)
    /\ Len(bits) % 8 = 0
    /\ Len(bits) >= 8
    /\ Last8(bits) = Terminator

\* lines 155-157
OuterBreak(ml, bits) == LengthReached(ml, bits) \/ TerminatorSeen(ml, bits)

ExtractStart(ml) ==
    /\ pc \in {"idle", "embed_done"}
    /\ message_length' = ml
    /\ source' = IF pc = "idle" THEN cover ELSE output_file
    /\ stego_image' = ExtractTruncate(source')
    /\ extracted_bits' = <<>>
    /\ blocks_read' = <<>>
    /\ stripped' = 0
    /\ extracted_message' = <<>>
    /\ y' = 0
    /\ x' = 0
    /\ pc' = IF stego_image'.h = 0 THEN "extract_decode"
             ELSE IF stego_image'.w = 0 THEN "extract_row_end"
             ELSE "extract_loop"
    /\ UNCHANGED <<cover, output_file>>
    /\ UNCHANGED embedVars

\* lines 134-153: one pass of the inner loop
ExtractBlock ==
    /\ pc = "extract_loop"
    /\ IF LengthReached(message_length, extracted_bits)
       THEN /\ pc' = "extract_row_end"
            /\ UNCHANGED <<extracted_bits, blocks_read, stripped, x>>
       ELSE LET bit == SignBit(Dct45(stego_image.px, y, x))
                bits == Append(extracted_bits, bit)
            IN  /\ blocks_read' = Append(blocks_read, BlockIndex(stego_image, y, x))
                /\ IF TerminatorSeen(message_length, bits)
                   THEN /\ extracted_bits' = SubSeq(bits, 1, Len(bits) - 8)
                        /\ stripped' = stripped + 1
                        /\ pc' = "extract_row_end"
                        /\ UNCHANGED x
                   ELSE /\ extracted_bits' = bits
                        /\ UNCHANGED stripped
                        /\ IF x + block_size < stego_image.w
                           THEN /\ x' = x + block_size
                                /\ UNCHANGED pc
                           ELSE /\ pc' = "extract_row_end"
                                /\ UNCHANGED x
    /\ UNCHANGED <<cover, output_file, stego_image, y, source, message_length,
                   extracted_message>>
    /\ UNCHANGED embedVars

\* lines 155-158: the check after each row of blocks
ExtractRowEnd ==
    /\ pc = "extract_row_end"
    /\ IF OuterBreak(message_length, extracted_bits)
       THEN /\ pc' = "extract_decode"
            /\ UNCHANGED <<y, x>>
       ELSE /\ y' = y + block_size
            /\ x' = 0
            /\ pc' = IF y + block_size < stego_image.h
                     THEN (IF stego_image.w = 0 THEN "extract_row_end" ELSE "extract_loop")
                     ELSE "extract_decode"
    /\ UNCHANGED <<cover, output_file, stego_image, source, message_length,
                   extracted_bits, blocks_read, stripped, extracted_message>>
    /\ UNCHANGED embedVars

\* lines 160-175
Decode(bits) == DecodeChunks(BinaryChunks(bits))

ExtractDecode ==
    /\ pc = "extract_decode"
    /\ extracted_message' = Decode(extracted_bits)
    /\ pc' = "extract_done"
    /\ UNCHANGED <<cover, output_file, stego_image, y, x, source, message_length,
                   extracted_bits, blocks_read, stripped>>
    /\ UNCHANGED embedVars

Next ==
    \/ \E msg \in Messages, a \in Alphas : EmbedStart(msg, a)
    \/ EmbedBreak
    \/ EmbedBlock
    \/ EmbedFinish
    \/ \E ml \in Lengths : ExtractStart(ml)
    \/ ExtractBlock
    \/ ExtractRowEnd
    \/ ExtractDecode

Spec == Init /\ [][Next]_vars

\* ---- the decode step on its own: every bit sequence a scan can collect -----------------------
BitSeqs == UNION {[1..n -> {0, 1}] : n \in 0..MaxBits}

InitDecode ==
    /\ cover = NoImage
    /\ output_file = NoImage
    /\ pc = "extract_decode"
    /\ message = <<>>
    /\ alpha = DefaultAlpha
    /\ image = NoImage
    /\ binary_message = <<>>
    /\ total_blocks = 0
    /\ stego_image = NoImage
    /\ bit_index = 0
    /\ y = 0
    /\ x = 0
    /\ embed_ret = "none"
    /\ max_length = -1
    /\ coef_log = <<>>
    /\ source = NoImage
    /\ message_length = [given |-> TRUE, n |-> MaxBits]
    /\ extracted_bits \in BitSeqs
    /\ blocks_read = <<>>
    /\ stripped = 0
    /\ extracted_message = <<>>

NextDecode == ExtractDecode

SpecDecode == InitDecode /\ [][NextDecode]_vars

\* ---- what the claims speak about ----------------------------------------------------------------
Accepted == {9, 10, 13} \cup (32..126)

\* number of whole blocks of an image of shape (h, w)
Blocks(img) == (img.h \div 8) * (img.w \div 8)

\* the bit block k (raster order, from 0) of the top-left crop of img carries
BlockBit(img, k) ==
    LET bw == img.w \div 8
    IN  SignBit(Dct45(img.px, (k \div bw) * 8, (k % bw) * 8))

AllBits(img) == [k \in 1..Blocks(img) |-> BlockBit(img, k - 1)]

ZeroByteAt(bits, t) == \A m \in 1..8 : bits[8 * (t - 1) + m] = 0

\* the 8-bit groups that end in an all-zero group on a byte boundary
ZeroGroups(bits) == {t \in 1..(Len(bits) \div 8) : ZeroByteAt(bits, t)}

FirstZeroGroup(bits) == CHOOSE t \in ZeroGroups(bits) : \A u \in ZeroGroups(bits) : t <= u

Upto(n) == [k \in 1..n |-> k - 1]

\* value of the t-th full 8-bit group, most significant bit first
GroupValue(bits, t) ==
      128 * bits[8 * t - 7] + 64 * bits[8 * t - 6] + 32 * bits[8 * t - 5]
    + 16 * bits[8 * t - 4] + 8 * bits[8 * t - 3] + 4 * bits[8 * t - 2]
    + 2 * bits[8 * t - 1] + bits[8 * t]

FullGroups(bits) == [t \in 1..(Len(bits) \div 8) |-> GroupValue(bits, t)]

IsAccepted(v) == v \in Accepted

EmbedCalled == pc \notin {"idle"} /\ binary_message # <<>>
InEmbed == pc \in {"embed_loop", "embed_clip", "embed_failed", "embed_done"}
InExtract == pc \in {"extract_loop", "extract_row_end", "extract_decode", "extract_done"}

\* C1: after a successful embed of a message of accepted characters into a grid
\* of sufficient capacity, extract without a length returns exactly the message.
C1_RoundTrip ==
    (/\ pc = "extract_done"
     /\ embed_ret = "True"
     /\ ~message_length.given
     /\ Blocks(cover) >= 8 * Len(message) + 8
     /\ \A i \in 1..Len(message) : message[i] \in Accepted)
    => extracted_message = message

\* C2: without a length, collection stops at the first all-zero 8-bit group on a
\* byte boundary in raster order: the bits kept are those before it, and the
\* blocks transformed are exactly those up to its last block.
C2_TerminatorStops ==
    (/\ pc = "extract_done"
     /\ ~message_length.given
     /\ ZeroGroups(AllBits(source)) # {})
    => LET t == FirstZeroGroup(AllBits(source))
       IN  /\ extracted_bits = SubSeq(AllBits(source), 1, 8 * (t - 1))
           /\ blocks_read = Upto(8 * t)

\* C3: embed goes on to success iff the payload bit string is no longer than the
\* capacity; a longer one fails with nothing modified, nothing written, and
\* capacity div 8 reported as the maximum length.
C3_CapacityBoundary ==
    EmbedCalled =>
        IF Len(binary_message) <= Blocks(cover)
        THEN /\ pc # "embed_failed"
             /\ embed_ret # "False"
             /\ max_length = -1
             /\ (pc \in {"embed_done"} \cup {"extract_loop", "extract_row_end",
                         "extract_decode", "extract_done"}
                   => embed_ret = "True" /\ output_file # NoImage)
        ELSE /\ pc = "embed_failed"
             /\ embed_ret = "False"
             /\ output_file = NoImage
             /\ stego_image = NoImage
             /\ coef_log = <<>>
             /\ bit_index = 0
             /\ max_length = Blocks(cover) \div 8

C3_Witness ==
    /\ pc = "embed_done"
    /\ embed_ret = "True"
    /\ Len(binary_message) = Blocks(cover)
    /\ output_file # NoImage

\* C4: with an expected length L >= 1 the scan reads the blocks in raster order
\* without a gap, never holds more than L bits, never drops a terminator, ends
\* with the bits of the first min(L, capacity) blocks, and returns at most
\* L div 8 characters.
C4_LengthBounded ==
    (InExtract /\ message_length.given /\ message_length.n >= 1) =>
        /\ Len(extracted_bits) <= message_length.n
        /\ stripped = 0
        /\ blocks_read = Upto(Len(extracted_bits))
        /\ Len(extracted_bits) <= Blocks(source)
        /\ pc \in {"extract_decode", "extract_done"} =>
              LET n == IF message_length.n < Blocks(source)
                       THEN message_length.n ELSE Blocks(source)
              IN  extracted_bits = SubSeq(AllBits(source), 1, n)
        /\ pc = "extract_done" =>
              Len(extracted_message) <= message_length.n \div 8

C4_Witness ==
    /\ pc = "extract_done"
    /\ message_length.given /\ message_length.n = 16
    /\ Blocks(source) > 16
    /\ Len(extracted_bits) = 16
    /\ Len(extracted_message) = 2

\* C5: an expected length of 0 is a length: extract collects no bit and returns
\* the empty string.
C5_ZeroLength ==
    (InExtract /\ message_length.given /\ message_length.n = 0) =>
        /\ extracted_bits = <<>>
        /\ blocks_read = <<>>
        /\ extracted_message = <<>>

\* C6: after a successful embed every block at raster index >= the payload length
\* equals, sample for sample, the same block of the truncated source.
C6_UntouchedTail ==
    (pc = "embed_done" /\ embed_ret = "True") =>
        \A r \in 0..(output_file.h - 1), c \in 0..(output_file.w - 1) :
            (r \div 8) * (output_file.w \div 8) + (c \div 8) >= Len(binary_message)
                => output_file.px[r][c] = cover.px[r][c]

C6_Witness ==
    /\ pc = "embed_done" /\ embed_ret = "True"
    /\ Len(binary_message) < Blocks(cover)
    /\ \E r \in 0..(output_file.h - 1), c \in 0..(output_file.w - 1) :
           output_file.px[r][c] # cover.px[r][c]

C8_DecodeFilter ==
    pc = "extract_done" =>
        /\ extracted_message = SelectSeq(FullGroups(extracted_bits), IsAccepted)
        /\ \A i \in 1..Len(extracted_message) : extracted_message[i] \in Accepted

C8_Witness ==
    /\ pc = "extract_done"
    /\ Len(extracted_bits) = 15
    /\ Len(extracted_message) = 1
    /\ GroupValue(extracted_bits, 1) = 126

\* C9: the payload bit string has 8 * len(message) + 8 bits, character i in bits
\* 8i..8i+7 most significant bit first, and eight zeros at the end.
C9_Framing ==
    EmbedCalled =>
        /\ Len(binary_message) = 8 * Len(message) + 8
        /\ \A i \in 1..Len(message) : GroupValue(binary_message, i) = message[i]
        /\ \A m \in 1..8 : binary_message[Len(binary_message) - 8 + m] = 0

\* C10: block k, and no other, receives bit k; the coefficient written is
\* abs(c) + strength > 0 for a 1 and -abs(c) - strength < 0 for a 0, whatever c
\* is; its sign reads back as bit k; a successful embed has hidden every bit.
C10_SignEncoding ==
    EmbedCalled =>
        /\ Len(coef_log) = bit_index
        /\ bit_index <= Len(binary_message)
        /\ \A i \in 1..Len(coef_log) :
              LET e == coef_log[i]
                  bw == cover.w \div 8
              IN  /\ e.block = i - 1
                  /\ e.bit = binary_message[i]
                  /\ e.coef = Dct45(cover.px, ((i - 1) \div bw) * 8, ((i - 1) % bw) * 8)
                  /\ e.bit = 1 => e.value = Abs(e.coef) + alpha /\ e.value > 0
                  /\ e.bit = 0 => e.value = -Abs(e.coef) - alpha /\ e.value < 0
                  /\ SignBit(e.value) = binary_message[i]
        /\ embed_ret = "True" => bit_index = Len(binary_message)

C10_Witness ==
    /\ pc = "embed_done" /\ embed_ret = "True"
    /\ \E i \in 1..Len(coef_log) : coef_log[i].coef < 0 /\ coef_log[i].bit = 1
    /\ \E i \in 1..Len(coef_log) : coef_log[i].coef > 0 /\ coef_log[i].bit = 0

====
